---- MODULE Spec2Model ----
(***************************************************************************)
(* Model of the AI-response generation / validation / retry pipeline of    *)
(* the English-learning application:                                       *)
(*   core/content_generator.py  generate_article_and_questions,            *)
(*                              parse_json_response,                       *)
(*                              validate_article_response                  *)
(*   core/evaluator.py          evaluate_answers,                          *)
(*                              validate_evaluation_response               *)
(*   prompts/*.py               the two prompt builders                    *)
(*                                                                         *)
(* Texts are sequences of characters (one-character strings).  Parsed JSON *)
(* values are tagged records:                                              *)
(*   [k |-> "null"], [k |-> "nan"], [k |-> "bool", b |-> ...],             *)
(*   [k |-> "num", n |-> ...], [k |-> "str", s |-> <<chars>>],             *)
(*   [k |-> "list", items |-> <<values>>],                                 *)
(*   [k |-> "obj", f |-> function from key (char sequence) to value]       *)
(***************************************************************************)
EXTENDS Integers, Sequences, FiniteSets, TLC

(***************************************************************************)
(* Characters                                                              *)
(***************************************************************************)
QUOTE == "\""
\* the backquote character U+0060 (the module's lexer takes no backquote in a
\* string literal, so the character is named)
BT == "BACKQUOTE"
NL == "\n"
SP == " "
\* str.isspace / JSON whitespace, over the characters the model uses
WS == {SP, NL}
Digits == {"0", "1", "2", "3", "4", "5", "6", "7", "8", "9"}

DigitVal(c) ==
    CASE c = "0" -> 0 [] c = "1" -> 1 [] c = "2" -> 2 [] c = "3" -> 3
      [] c = "4" -> 4 [] c = "5" -> 5 [] c = "6" -> 6 [] c = "7" -> 7
      [] c = "8" -> 8 [] c = "9" -> 9

(***************************************************************************)
(* JSON values (what json.loads returns)                                   *)
(***************************************************************************)
JNull == [k |-> "null"]
JNaN == [k |-> "nan"]
JBool(b) == [k |-> "bool", b |-> b]
JNum(n) == [k |-> "num", n |-> n]
JStr(s) == [k |-> "str", s |-> s]
JList(items) == [k |-> "list", items |-> items]
JObj(f) == [k |-> "obj", f |-> f]

\* isinstance(v, dict) / list / str
IsDict(v) == v.k = "obj"
IsList(v) == v.k = "list"
IsStr(v) == v.k = "str"
\* isinstance(v, (int, float)): bool is a subclass of int, and NaN is a float
IsIntOrFloat(v) == v.k \in {"num", "bool", "nan"}
\* `key in d` for a dict d
HasKey(d, key) == key \in DOMAIN d.f
Get(d, key) == d.f[key]

(***************************************************************************)
(* json.loads on a character sequence.  Results are                        *)
(*   [ok |-> BOOLEAN, pos |-> next index, val |-> value].                  *)
(* The grammar is JSON over the characters used here: objects, arrays,     *)
(* strings without escapes (a raw newline inside a string is rejected, as  *)
(* the strict decoder does), integers, true / false / null / NaN.          *)
(***************************************************************************)
PFail == [ok |-> FALSE, pos |-> 0, val |-> JNull]
POk(p, v) == [ok |-> TRUE, pos |-> p, val |-> v]

At(s, i) == IF i >= 1 /\ i <= Len(s) THEN s[i] ELSE "EOF"

\* s[i..] starts with the characters of w
StartsWith(s, i, w) ==
    /\ i + Len(w) - 1 <= Len(s)
    /\ \A j \in 1..Len(w) : s[i + j - 1] = w[j]

\* first index >= i that is not whitespace (Len(s)+1 when there is none)
SkipWS(s, i) ==
    CHOOSE j \in i..(Len(s) + 1) :
        /\ \A m \in i..(j - 1) : s[m] \in WS
        /\ At(s, j) \notin WS

ParseString(s, i) ==
    IF At(s, i) # QUOTE THEN PFail
    ELSE IF \A j \in (i + 1)..Len(s) : s[j] # QUOTE THEN PFail
    ELSE LET e == CHOOSE j \in (i + 1)..Len(s) :
                     s[j] = QUOTE /\ \A m \in (i + 1)..(j - 1) : s[m] # QUOTE
         IN  IF \E m \in (i + 1)..(e - 1) : s[m] = NL THEN PFail
             ELSE POk(e + 1, JStr(SubSeq(s, i + 1, e - 1)))

RECURSIVE DigitsValue(_, _, _)
DigitsValue(s, i, e) ==
    IF e < i THEN 0 ELSE 10 * DigitsValue(s, i, e - 1) + DigitVal(s[e])

\* -?(0|[1-9][0-9]*)
ParseNumber(s, i) ==
    LET neg == At(s, i) = "-"
        d == IF neg THEN i + 1 ELSE i
    IN  IF At(s, d) \notin Digits THEN PFail
        ELSE IF s[d] = "0" THEN POk(d + 1, JNum(0))
        ELSE LET e == CHOOSE j \in d..Len(s) :
                         /\ \A m \in d..j : s[m] \in Digits
                         /\ At(s, j + 1) \notin Digits
                 v == DigitsValue(s, d, e)
             IN  POk(e + 1, JNum(IF neg THEN 0 - v ELSE v))

LitTrue == <<"t", "r", "u", "e">>
LitFalse == <<"f", "a", "l", "s", "e">>
LitNull == <<"n", "u", "l", "l">>
LitNaN == <<"N", "a", "N">>

RECURSIVE ParseValue(_, _)
RECURSIVE ParseElements(_, _, _)
RECURSIVE ParseMembers(_, _, _)

\* after '[' and at least one element: value (ws , ws value)* ws ]
ParseElements(s, i, acc) ==
    LET r == ParseValue(s, i)
    IN  IF ~r.ok THEN PFail
        ELSE LET j == SkipWS(s, r.pos)
                 items == Append(acc, r.val)
             IN  IF At(s, j) = "]" THEN POk(j + 1, JList(items))
                 ELSE IF At(s, j) = "," THEN ParseElements(s, SkipWS(s, j + 1), items)
                 ELSE PFail

\* after '{': "key" ws : ws value (ws , ws "key" ...)* ws }
\* a repeated key keeps the last value, as dict construction does
ParseMembers(s, i, acc) ==
    LET key == ParseString(s, i)
    IN  IF ~key.ok THEN PFail
        ELSE LET c == SkipWS(s, key.pos)
             IN  IF At(s, c) # ":" THEN PFail
                 ELSE LET r == ParseValue(s, SkipWS(s, c + 1))
                      IN  IF ~r.ok THEN PFail
                          ELSE LET j == SkipWS(s, r.pos)
                                   f == (key.val.s :> r.val) @@ acc
                               IN  IF At(s, j) = "}" THEN POk(j + 1, JObj(f))
                                   ELSE IF At(s, j) = ","
                                        THEN ParseMembers(s, SkipWS(s, j + 1), f)
                                   ELSE PFail

ParseValue(s, i) ==
    LET c == At(s, i)
    IN  IF c = QUOTE THEN ParseString(s, i)
        ELSE IF c = "{"
             THEN LET j == SkipWS(s, i + 1)
                  IN  IF At(s, j) = "}" THEN POk(j + 1, JObj(<<>>))
                      ELSE ParseMembers(s, j, <<>>)
        ELSE IF c = "["
             THEN LET j == SkipWS(s, i + 1)
                  IN  IF At(s, j) = "]" THEN POk(j + 1, JList(<<>>))
                      ELSE ParseElements(s, j, <<>>)
        ELSE IF StartsWith(s, i, LitTrue) THEN POk(i + 4, JBool(TRUE))
        ELSE IF StartsWith(s, i, LitFalse) THEN POk(i + 5, JBool(FALSE))
        ELSE IF StartsWith(s, i, LitNull) THEN POk(i + 4, JNull)
        ELSE IF StartsWith(s, i, LitNaN) THEN POk(i + 3, JNaN)
        ELSE ParseNumber(s, i)

\* json.loads(text): one value with optional whitespace around it, else
\* JSONDecodeError (ok = FALSE)
JsonLoads(s) ==
    LET r == ParseValue(s, SkipWS(s, 1))
    IN  IF r.ok /\ SkipWS(s, r.pos) = Len(s) + 1 THEN [ok |-> TRUE, val |-> r.val]
        ELSE [ok |-> FALSE, val |-> JNull]

(***************************************************************************)
(* Key and type names, spelled as character sequences                      *)
(***************************************************************************)
KeyArticle ==
    <<"a", "r", "t", "i", "c", "l", "e">>
KeyQuestions ==
    <<"q", "u", "e", "s", "t", "i", "o", "n", "s">>
KeyType ==
    <<"t", "y", "p", "e">>
KeyQuestion ==
    <<"q", "u", "e", "s", "t", "i", "o", "n">>
KeyCorrectAnswer ==
    <<"c", "o", "r", "r", "e", "c", "t", "_", "a", "n", "s", "w", "e", "r">>
KeyOptions ==
    <<"o", "p", "t", "i", "o", "n", "s">>
KeyScore ==
    <<"s", "c", "o", "r", "e">>
KeyItemAnalysis ==
    <<"i", "t", "e", "m", "_", "a", "n", "a", "l", "y", "s", "i", "s">>
KeyOverallFeedback ==
    <<"o", "v", "e", "r", "a", "l", "l", "_", "f", "e", "e", "d", "b", "a", "c", "k">>
KeySuggestions ==
    <<"s", "u", "g", "g", "e", "s", "t", "i", "o", "n", "s">>
MultipleChoice ==
    <<"m", "u", "l", "t", "i", "p", "l", "e", "_", "c", "h", "o", "i", "c", "e">>
FillBlank ==
    <<"f", "i", "l", "l", "_", "b", "l", "a", "n", "k">>
TrueFalse ==
    <<"t", "r", "u", "e", "_", "f", "a", "l", "s", "e">>
JsonTag ==
    <<"j", "s", "o", "n">>

(***************************************************************************)
(* parse_json_response (content_generator.py)                              *)
(***************************************************************************)
Fence == <<BT, BT, BT>>
NoMatch == [found |-> FALSE, group |-> <<>>]
Match(g) == [found |-> TRUE, group |-> g]

SetMin(S) == CHOOSE x \in S : \A y \in S : x <= y
SetMax(S) == CHOOSE x \in S : \A y \in S : x >= y

\* ```(?:json)?\s*\{ matched at p: the index of the "{", else 0
FenceOpenAt(s, p) ==
    IF ~StartsWith(s, p, Fence) THEN 0
    ELSE LET a == IF StartsWith(s, p + 3, JsonTag) THEN p + 7 ELSE p + 3
             b == SkipWS(s, a)
         IN  IF At(s, b) = "{" THEN b ELSE 0

\* \}\s*``` matched at e
FenceCloseAt(s, e) == At(s, e) = "}" /\ StartsWith(s, SkipWS(s, e + 1), Fence)

\* the indices at which the lazy group opened at b may end
FenceEnds(s, b) == {e \in (b + 1)..Len(s) : FenceCloseAt(s, e)}

\* re.search(r'```(?:json)?\s*(\{.*?\})\s*```', response, re.DOTALL):
\* the leftmost start that matches at all, its group ended as early as possible
FenceSearch(s) ==
    LET starts == {p \in 1..Len(s) :
                      FenceOpenAt(s, p) # 0 /\ FenceEnds(s, FenceOpenAt(s, p)) # {}}
    IN  IF starts = {} THEN NoMatch
        ELSE LET b == FenceOpenAt(s, SetMin(starts))
             IN  Match(SubSeq(s, b, SetMin(FenceEnds(s, b))))

\* re.search(r'\{.*\}', response, re.DOTALL): first "{" to last "}"
BraceSearch(s) ==
    LET opens == {i \in 1..Len(s) : s[i] = "{"}
        closes == {i \in 1..Len(s) : s[i] = "}"}
    IN  IF opens = {} \/ closes = {} \/ SetMax(closes) < SetMin(opens) THEN NoMatch
        ELSE Match(SubSeq(s, SetMin(opens), SetMax(closes)))

\* ok = FALSE is json.JSONDecodeError raised to the caller
parse_json_response(response) ==
    LET direct == JsonLoads(response)
    IN  IF direct.ok THEN direct
        ELSE LET json_match == FenceSearch(response)
             IN  IF json_match.found THEN JsonLoads(json_match.group)
                 ELSE LET brace_match == BraceSearch(response)
                      IN  IF brace_match.found THEN JsonLoads(brace_match.group)
                          ELSE [ok |-> FALSE, val |-> JNull]

(***************************************************************************)
(* validate_article_response (content_generator.py)                        *)
(* The checks run in the order of the code, each behind the ones before    *)
(* it, so a field is read only where the code reads it.                    *)
(***************************************************************************)
MIN_ARTICLE_CHARS == 50
NUM_QUESTIONS == 5
NUM_OPTIONS == 4

RequiredQuestionKeys == {KeyType, KeyQuestion, KeyCorrectAnswer}

\* len(data['article']) < 50
ArticleTooShort(article) == Len(article.s) < MIN_ARTICLE_CHARS

\* a count check that only rejects lists that are too long
WrongQuestionCountOnlyAbove(questions) == Len(questions.items) > NUM_QUESTIONS

\* len(questions) != 5
WrongQuestionCount(questions) == Len(questions.items) # NUM_QUESTIONS

\* an option check that only rejects lists that are too short
WrongOptionCountOnlyBelow(options) == Len(options.items) < NUM_OPTIONS

\* len(q['options']) != 4
WrongOptionCount(options) == Len(options.items) # NUM_OPTIONS

\* the body of `for q in questions`: TRUE when the loop goes on to the next q
QuestionPasses(q) ==
    IF ~IsDict(q) THEN FALSE
    ELSE IF ~(\A key \in RequiredQuestionKeys : HasKey(q, key)) THEN FALSE
    ELSE IF Get(q, KeyType) = JStr(MultipleChoice)
         THEN IF ~HasKey(q, KeyOptions) \/ ~IsList(Get(q, KeyOptions)) THEN FALSE
              ELSE IF WrongOptionCount(Get(q, KeyOptions)) THEN FALSE
              ELSE TRUE
    ELSE IF Get(q, KeyType) \notin {JStr(FillBlank), JStr(TrueFalse)} THEN FALSE
    ELSE TRUE

validate_article_response(data) ==
    IF ~IsDict(data) THEN FALSE
    ELSE IF ~HasKey(data, KeyArticle) \/ ~HasKey(data, KeyQuestions) THEN FALSE
    ELSE IF ~IsStr(Get(data, KeyArticle)) \/ ArticleTooShort(Get(data, KeyArticle))
         THEN FALSE
    ELSE IF ~IsList(Get(data, KeyQuestions)) \/ WrongQuestionCount(Get(data, KeyQuestions))
         THEN FALSE
    ELSE \A i \in 1..Len(Get(data, KeyQuestions).items) :
             QuestionPasses(Get(data, KeyQuestions).items[i])

(***************************************************************************)
(* validate_evaluation_response (evaluator.py)                             *)
(***************************************************************************)
MAX_SCORE == 100

RequiredEvaluationKeys == {KeyScore, KeyItemAnalysis, KeyOverallFeedback, KeySuggestions}

\* Python's < and > on an int, a bool (False = 0, True = 1) or a float NaN
\* (every ordering comparison with NaN is False)
NumLess(v, c) ==
    CASE v.k = "num" -> v.n < c
      [] v.k = "bool" -> (IF v.b THEN 1 ELSE 0) < c
      [] v.k = "nan" -> FALSE
NumGreater(v, c) ==
    CASE v.k = "num" -> v.n > c
      [] v.k = "bool" -> (IF v.b THEN 1 ELSE 0) > c
      [] v.k = "nan" -> FALSE

\* not isinstance(score, (int, float)) or score < 0 or score > 100
ScoreRejected(score) ==
    ~IsIntOrFloat(score) \/ NumLess(score, 0) \/ NumGreater(score, MAX_SCORE)

\* the item_analysis check left out
ItemAnalysisNeverRejected(item_analysis) == FALSE

\* not isinstance(data['item_analysis'], list)
ItemAnalysisRejected(item_analysis) == ~IsList(item_analysis)

validate_evaluation_response(data) ==
    IF ~IsDict(data) THEN FALSE
    ELSE IF ~(\A key \in RequiredEvaluationKeys : HasKey(data, key)) THEN FALSE
    ELSE IF ScoreRejected(Get(data, KeyScore)) THEN FALSE
    ELSE IF ItemAnalysisRejected(Get(data, KeyItemAnalysis)) THEN FALSE
    ELSE TRUE

(***************************************************************************)
(* Prompt builders (prompts/article_generation.py, prompts/evaluation.py). *)
(* A prompt is [raised, system, user]: raised = TRUE is an exception       *)
(* leaving the builder; user holds the parts of the text that vary.        *)
(***************************************************************************)
WORDS_SHOWN == 50

Min(a, b) == IF a <= b THEN a ELSE b

NoPrompt == [raised |-> FALSE, system |-> "none", user |-> <<>>]

\* a suffix already at 50 words
HasMoreOrExactly(n) == n >= WORDS_SHOWN
\* if len(words) > 50
HasMore(n) == n > WORDS_SHOWN

\* words[:50] joined, and the "(and N more words)" suffix when len(words) > 50
get_article_generation_prompt(words, age, lexile) ==
    [raised |-> FALSE,
     system |-> "article_system",
     user |-> [age |-> age,
               lexile |-> lexile,
               shown |-> SubSeq(words, 1, Min(WORDS_SHOWN, Len(words))),
               suffix |-> IF HasMore(Len(words))
                          THEN <<Len(words) - WORDS_SHOWN>> ELSE <<>>]]

\* q['type'], q['question'], q['correct_answer'] can be read
QuestionReadable(q) ==
    IsDict(q) /\ \A key \in RequiredQuestionKeys : HasKey(q, key)

\* numbering that starts at 0
BlockNumberFromZero(i) == i - 1
\* enumerate(..., 1): the number of the i-th pair
BlockNumber(i) == i

\* one block per pair of zip(questions, user_answers), numbered from 1;
\* reading a missing key of a zipped question raises KeyError (TypeError when
\* the question is no dict)
get_evaluation_prompt(questions, user_answers) ==
    LET n == Min(Len(questions), Len(user_answers))
    IN  IF \E i \in 1..n : ~QuestionReadable(questions[i])
        THEN [raised |-> TRUE, system |-> "evaluation_system", user |-> <<>>]
        ELSE [raised |-> FALSE,
              system |-> "evaluation_system",
              user |-> [i \in 1..n |->
                           [num |-> BlockNumber(i),
                            type |-> Get(questions[i], KeyType),
                            question |-> Get(questions[i], KeyQuestion),
                            correct_answer |-> Get(questions[i], KeyCorrectAnswer),
                            answer |-> user_answers[i]]]]

(***************************************************************************)
(* Values and texts the checks feed to the code                            *)
(***************************************************************************)
MaxStrLen == 4
MaxRawLen == 3
MaxListLen == 6
MaxWords == 6
MaxRetriesBound == 3

Chars(n) == [i \in 1..n |-> "x"]
With(obj, key, val) == JObj((key :> val) @@ obj.f)
Without(obj, key) == JObj([x \in (DOMAIN obj.f) \ {key} |-> obj.f[x]])

QFill ==
    JObj(KeyType :> JStr(FillBlank) @@ KeyQuestion :> JStr(<<"q">>)
         @@ KeyCorrectAnswer :> JStr(<<"a">>))
QTrueFalse ==
    JObj(KeyType :> JStr(TrueFalse) @@ KeyQuestion :> JStr(<<"q">>)
         @@ KeyCorrectAnswer :> JBool(TRUE))
QChoiceBare ==
    JObj(KeyType :> JStr(MultipleChoice) @@ KeyQuestion :> JStr(<<"q">>)
         @@ KeyCorrectAnswer :> JStr(<<"A">>))
QChoice(n) == With(QChoiceBare, KeyOptions, JList([i \in 1..n |-> JStr(<<"o">>)]))

\* questions the validator accepts
GoodQuestions == {QFill, QTrueFalse, QChoice(NUM_OPTIONS)}

\* one question in every shape the validator tells apart
QuestionVariants ==
    GoodQuestions
    \cup {QChoice(NUM_OPTIONS - 1), QChoice(NUM_OPTIONS + 1), QChoiceBare,
          With(QChoiceBare, KeyOptions, JStr(Chars(NUM_OPTIONS))),
          With(QFill, KeyOptions, JNull),
          With(QFill, KeyType, JStr(<<"e", "s", "s", "a", "y">>)),
          With(QFill, KeyType, JNum(1)),
          Without(QFill, KeyType), Without(QFill, KeyQuestion),
          Without(QTrueFalse, KeyCorrectAnswer),
          JStr(FillBlank), JNum(NUM_QUESTIONS), JList(<<>>), JNull}

\* lists of up to MaxListLen questions: a good question everywhere but at one
\* place, which holds any variant
QuestionLists ==
    {<<>>} \cup
    {[i \in 1..n |-> IF i = p THEN q ELSE base] :
        n \in 1..MaxListLen, p \in 1..MaxListLen,
        q \in QuestionVariants, base \in GoodQuestions}

\* the composition the prompt asks for: 2 multiple_choice, 2 fill_blank, 1 true_false
PromptedQuestions ==
    <<QChoice(NUM_OPTIONS), QChoice(NUM_OPTIONS), QFill, QFill, QTrueFalse>>

ArticleFieldValues ==
    {JStr(Chars(MIN_ARTICLE_CHARS)), JStr(Chars(MIN_ARTICLE_CHARS - 1)), JStr(<<>>),
     JNum(MIN_ARTICLE_CHARS), JList([i \in 1..MIN_ARTICLE_CHARS |-> JNum(i)]), JNull}

QuestionsFieldValues ==
    {JList(l) : l \in QuestionLists \cup {PromptedQuestions}}
    \cup {JStr(Chars(NUM_QUESTIONS)), JObj(<<>>), JNull}

\* data handed to validate_article_response
ArticleInputs ==
    {JObj(KeyArticle :> a @@ KeyQuestions :> q) :
        a \in ArticleFieldValues, q \in QuestionsFieldValues}
    \cup {JObj(KeyArticle :> a) : a \in ArticleFieldValues}
    \cup {JObj(KeyQuestions :> q) : q \in QuestionsFieldValues}
    \cup {JObj(<<>>), JList(PromptedQuestions), JStr(Chars(MIN_ARTICLE_CHARS)),
          JNum(NUM_QUESTIONS), JNull}

AnalysisEntry(i) ==
    JObj(<<"n">> :> JNum(i) @@ <<"c">> :> JBool(TRUE) @@ <<"f">> :> JStr(<<"f">>))
Analysis(n) == JList([i \in 1..n |-> AnalysisEntry(i)])

ScoreFieldValues ==
    {JNum(0 - 1), JNum(0), JNum(85), JNum(MAX_SCORE), JNum(MAX_SCORE + 1),
     JBool(TRUE), JBool(FALSE), JNaN, JNull, JStr(<<"8", "5">>), JList(<<JNum(85)>>)}

ItemAnalysisFieldValues ==
    {Analysis(n) : n \in 0..MaxListLen}
    \cup {JStr(<<"o", "k">>), JObj(<<>>), JNull, JNum(NUM_QUESTIONS)}

OptionalText == {<<>>, <<JStr(<<"t">>)>>, <<JNull>>}

EvaluationRecord(score, analysis, feedback, suggestions) ==
    JObj([x \in {KeyScore : y \in 1..Len(score)}
              \cup {KeyItemAnalysis : y \in 1..Len(analysis)}
              \cup {KeyOverallFeedback : y \in 1..Len(feedback)}
              \cup {KeySuggestions : y \in 1..Len(suggestions)} |->
            IF x = KeyScore THEN score[1]
            ELSE IF x = KeyItemAnalysis THEN analysis[1]
            ELSE IF x = KeyOverallFeedback THEN feedback[1]
            ELSE suggestions[1]])

\* data handed to validate_evaluation_response: each key present or absent
EvaluationInputs ==
    {EvaluationRecord(s, a, f, g) :
        s \in {<<>>} \cup {<<v>> : v \in ScoreFieldValues},
        a \in {<<>>} \cup {<<v>> : v \in ItemAnalysisFieldValues},
        f \in OptionalText, g \in OptionalText}
    \cup {Analysis(1), JNum(85), JNull}

(***************************************************************************)
(* Texts: a value written out as JSON, bare or wrapped as models wrap it   *)
(***************************************************************************)
DigitChars == <<"0", "1", "2", "3", "4", "5", "6", "7", "8", "9">>

RECURSIVE EncodeNat(_)
EncodeNat(n) ==
    IF n < 10 THEN <<DigitChars[n + 1]>>
    ELSE EncodeNat(n \div 10) \o <<DigitChars[(n % 10) + 1]>>

RECURSIVE Encode(_)
RECURSIVE EncodeItems(_, _)
RECURSIVE EncodeMembers(_, _)

EncodeItems(items, i) ==
    IF i > Len(items) THEN <<>>
    ELSE (IF i > 1 THEN <<",">> ELSE <<>>) \o Encode(items[i]) \o EncodeItems(items, i + 1)

EncodeMembers(f, keys) ==
    IF keys = {} THEN <<>>
    ELSE LET key == CHOOSE x \in keys : TRUE
         IN  <<QUOTE>> \o key \o <<QUOTE, ":">> \o Encode(f[key])
             \o (IF keys = {key} THEN <<>> ELSE <<",">>)
             \o EncodeMembers(f, keys \ {key})

\* the JSON text of a value, without optional whitespace
Encode(v) ==
    CASE v.k = "null" -> LitNull
      [] v.k = "nan" -> LitNaN
      [] v.k = "bool" -> (IF v.b THEN LitTrue ELSE LitFalse)
      [] v.k = "num" -> (IF v.n < 0 THEN <<"-">> \o EncodeNat(0 - v.n) ELSE EncodeNat(v.n))
      [] v.k = "str" -> <<QUOTE>> \o v.s \o <<QUOTE>>
      [] v.k = "list" -> <<"[">> \o EncodeItems(v.items, 1) \o <<"]">>
      [] v.k = "obj" -> <<"{">> \o EncodeMembers(v.f, DOMAIN v.f) \o <<"}">>

Prose == <<"o", "k">>
Wraps == {"bare", "fence", "fence_json", "prose"}

\* the text X as the backend may present it
Wrap(w, x) ==
    CASE w = "bare" -> x
      [] w = "fence" -> Fence \o <<NL>> \o x \o <<NL>> \o Fence
      [] w = "fence_json" -> Fence \o JsonTag \o <<NL>> \o x \o <<NL>> \o Fence
      [] w = "prose" -> Prose \o <<SP>> \o x \o <<SP>> \o Prose

\* string values of up to MaxStrLen characters, braces and backquotes among them
StrAlphabet == {"a", "{", "}", BT}
StrContents == UNION {[1..n -> StrAlphabet] : n \in 0..MaxStrLen}

\* JSON objects, flat and nested, holding such a string
ObjectValues ==
    {JObj(<<"a">> :> JStr(c)) : c \in StrContents}
    \cup {JObj(<<"a">> :> JObj(<<"b">> :> JStr(c))) : c \in StrContents}
    \cup {JObj(<<>>), JObj(<<"a">> :> JNum(1) @@ <<"b">> :> JList(<<JObj(<<>>)>>)),
          JObj(<<"a">> :> JStr(Fence \o <<"{", "}">> \o Fence))}

\* texts that are no wrapping of an object
RawAlphabet == {"{", "}", "1", BT}
RawTexts == UNION {[1..n -> RawAlphabet] : n \in 0..MaxRawLen}

(***************************************************************************)
(* What the backend may return to the two pipelines                        *)
(***************************************************************************)
ArticlePayload(article, questions) ==
    JObj(KeyArticle :> article @@ KeyQuestions :> JList(questions))
EvaluationPayload(score, analysis) ==
    JObj(KeyScore :> score @@ KeyItemAnalysis :> analysis
         @@ KeyOverallFeedback :> JStr(<<"f">>) @@ KeySuggestions :> JStr(<<"s">>))

PayloadNames ==
    {"article", "article_five_fill_blank", "article_four_questions", "article_short",
     "evaluation", "evaluation_one_entry", "evaluation_true_score",
     "evaluation_high_score", "evaluation_text_analysis"}

PayloadValue(name) ==
    CASE name = "article" ->
           ArticlePayload(JStr(Chars(MIN_ARTICLE_CHARS)), PromptedQuestions)
      [] name = "article_five_fill_blank" ->
           ArticlePayload(JStr(Chars(MIN_ARTICLE_CHARS)),
                          [i \in 1..NUM_QUESTIONS |-> QFill])
      [] name = "article_four_questions" ->
           ArticlePayload(JStr(Chars(MIN_ARTICLE_CHARS)),
                          [i \in 1..(NUM_QUESTIONS - 1) |-> QFill])
      [] name = "article_short" ->
           ArticlePayload(JStr(Chars(MIN_ARTICLE_CHARS - 1)), PromptedQuestions)
      [] name = "evaluation" -> EvaluationPayload(JNum(85), Analysis(NUM_QUESTIONS))
      [] name = "evaluation_one_entry" -> EvaluationPayload(JNum(85), Analysis(1))
      [] name = "evaluation_true_score" ->
           EvaluationPayload(JBool(TRUE), Analysis(NUM_QUESTIONS))
      [] name = "evaluation_high_score" ->
           EvaluationPayload(JNum(MAX_SCORE + 1), Analysis(NUM_QUESTIONS))
      [] name = "evaluation_text_analysis" ->
           EvaluationPayload(JNum(85), JStr(<<"o", "k">>))

\* a response is named by what it carries and how it is wrapped; "garbled" is
\* text with no JSON in it
Responses ==
    [payload : PayloadNames, wrap : {"bare"}]
    \cup [payload : {"article", "evaluation"}, wrap : {"fence_json", "prose"}]
    \cup {[payload |-> "garbled", wrap |-> "bare"]}

NoResponse == [payload |-> "none", wrap |-> "none"]

\* the text client.generate returns for a response
ResponseText(r) ==
    IF r.payload = "garbled" THEN <<"o", "o", "p", "s", "{">>
    ELSE Wrap(r.wrap, Encode(PayloadValue(r.payload)))

\* parse_json_response of every response text
ParsedResponse == [r \in Responses |-> parse_json_response(ResponseText(r))]

(***************************************************************************)
(* generate_article_and_questions / evaluate_answers: the retry loop       *)
(***************************************************************************)
\* a loop that runs one attempt too many
InRangeInclusive(attempt, max_retries) == attempt <= max_retries

\* for attempt in range(max_retries): the body runs for this attempt
InRange(attempt, max_retries) == attempt < max_retries

\* if attempt == max_retries - 1: return None
LastAttempt(attempt, max_retries) == attempt = max_retries - 1

\* the validator each pipeline applies to the parsed data
Validate(p, data) ==
    IF p = "generate" THEN validate_article_response(data)
    ELSE validate_evaluation_response(data)

\* return None
None == [some |-> FALSE, val |-> JNull]
\* a success path that forgets the data
ReturnsNothing(v) == [some |-> FALSE, val |-> JNull]
\* return data
Some(v) == [some |-> TRUE, val |-> v]

\* the least word-bank size app.generate_content accepts
MIN_WORDS == 5

\* client.generate(user_prompt, system_prompt): the arguments of one invocation
GenerateArgsWithoutSystem(p) == [prompt |-> p.user, system_prompt |-> "none"]
GenerateArgs(p) == [prompt |-> p.user, system_prompt |-> p.system]

\* the word list of n distinct words
WordList(n) == [i \in 1..n |-> [j \in 1..i |-> "a"]]
\* n answers
AnswerList(n) == [i \in 1..n |-> <<"A">>]

\* question lists handed to evaluate_answers: the five of a validated article,
\* the same with the third lacking its type, and none
EvaluatedQuestionLists ==
    {PromptedQuestions,
     [PromptedQuestions EXCEPT ![3] = Without(QFill, KeyType)],
     <<>>}

VARIABLES
    pc,            \* where the pipeline call is: idle, loop, succeeded, failed, raised
    pipeline,      \* "generate" or "evaluate" ("none" when idle)
    words,         \* generate_article_and_questions: the words argument
    questions,     \* evaluate_answers: the questions argument
    user_answers,  \* evaluate_answers: the user_answers argument
    max_retries,   \* the max_retries argument
    prompt,        \* (system_prompt, user_prompt) built before the loop
    attempt,       \* the loop variable
    calls,         \* number of client.generate invocations of this call
    log,           \* how each attempt of this call ended
    response,      \* the last text client.generate returned
    result,        \* the value returned to the caller
    builds,        \* how often this call ran its prompt builder
    sent,          \* the arguments of each client.generate invocation of this call
    ptext,         \* parse_json_response: its argument
    pbare,         \* the object text ptext was made from
    pwrap,         \* how pbare was wrapped
    presult,       \* what parse_json_response returned
    ppc,           \* ready, done
    vdata,         \* a validator's argument
    vkind,         \* which validator: article, evaluation
    vresult,       \* what the validator returned
    vpc,           \* ready, done
    word_file,     \* word_bank.txt of the user: its lines
    bank_op,       \* the last word-bank operation
    bank_arg,      \* its argument
    bank_before,   \* load_words before it ran
    bank_ret,      \* what it returned
    now,           \* the clock: [day, sec]
    log_files,     \* the user's log directory: (date, time) name -> record
    saves,         \* save_test_log calls completed
    listed,        \* what the last get_user_logs returned
    lpc,           \* idle, listed
    api_key_global,\* the module attribute dashscope.api_key
    clients,       \* the clients constructed so far
    used,          \* the last generate: which client, with which credentials
    bkind,         \* a prompt builder's call: article, evaluation
    bwords,        \* get_article_generation_prompt: words
    bquestions,    \* get_evaluation_prompt: questions
    banswers,      \* get_evaluation_prompt: user_answers
    bresult,       \* what the builder returned
    bpc,           \* ready, done
    current_user,      \* app.py globals
    current_article,
    current_questions,
    current_client,
    selected,          \* the value of the user dropdown
    generations,       \* successful generate_content calls so far
    last_generate,     \* the most recent generate_content: outcome, user, content
    last_submit,       \* the last submit_answers: what it evaluated, for whom
    saved_logs         \* the save_test_log calls of submit_answers

pipeVars ==
    <<pc, pipeline, words, questions, user_answers, max_retries, prompt, attempt,
      calls, log, response, result, builds, sent>>
parseVars == <<ptext, pbare, pwrap, presult, ppc>>
validateVars == <<vdata, vkind, vresult, vpc>>
bankVars == <<word_file, bank_op, bank_arg, bank_before, bank_ret>>
logVars == <<now, log_files, saves, listed, lpc>>
clientVars == <<api_key_global, clients, used>>
builderVars == <<bkind, bwords, bquestions, banswers, bresult, bpc>>
appVars ==
    <<current_user, current_article, current_questions, current_client, selected,
      generations, last_generate, last_submit, saved_logs>>
storeVars == <<bankVars, logVars, clientVars, builderVars, appVars>>
vars == <<pipeVars, parseVars, validateVars, storeVars>>

PipeIdle ==
    /\ pc = "idle"
    /\ pipeline = "none"
    /\ words = <<>>
    /\ questions = <<>>
    /\ user_answers = <<>>
    /\ max_retries = 0
    /\ prompt = NoPrompt
    /\ attempt = 0
    /\ calls = 0
    /\ log = <<>>
    /\ response = NoResponse
    /\ result = None
    /\ builds = 0
    /\ sent = <<>>

ParseIdle ==
    /\ ptext = <<>>
    /\ pbare = <<>>
    /\ pwrap = "none"
    /\ presult = [ok |-> FALSE, val |-> JNull]
    /\ ppc = "idle"

ValidateIdle ==
    /\ vdata = JNull
    /\ vkind = "none"
    /\ vresult = FALSE
    /\ vpc = "idle"

(***************************************************************************)
(* word_bank.py: the word bank file, one word per line                     *)
(***************************************************************************)
\* str.lower, over the letters the model uses
LowerChar(c) == CASE c = "A" -> "a" [] c = "B" -> "b" [] OTHER -> c
\* a comparison that tells the cases apart
SameCase(w) == w
lower(w) == [i \in 1..Len(w) |-> LowerChar(w[i])]

\* str.strip
strip(w) ==
    LET inked == {i \in 1..Len(w) : w[i] \notin WS}
    IN  IF inked = {} THEN <<>> ELSE SubSeq(w, SetMin(inked), SetMax(inked))

\* str.split('\n'), which is also how a text file falls into lines
RECURSIVE SplitLines(_)
SplitLines(text) ==
    LET breaks == {i \in 1..Len(text) : text[i] = NL}
    IN  IF breaks = {} THEN <<text>>
        ELSE <<SubSeq(text, 1, SetMin(breaks) - 1)>>
             \o SplitLines(SubSeq(text, SetMin(breaks) + 1, Len(text)))

\* [line.strip() for line in f if line.strip()]
RECURSIVE StrippedNonEmpty(_)
StrippedNonEmpty(lines) ==
    IF lines = <<>> THEN <<>>
    ELSE (IF strip(Head(lines)) = <<>> THEN <<>> ELSE <<strip(Head(lines))>>)
         \o StrippedNonEmpty(Tail(lines))

load_words(file) == StrippedNonEmpty(file)

\* for word in words: if word.strip(): f.write(word.strip() + "\n"); a word
\* with a line break inside it lands in the file as several lines
RECURSIVE save_words(_)
save_words(ws) ==
    IF ws = <<>> THEN <<>>
    ELSE (IF strip(Head(ws)) = <<>> THEN <<>> ELSE SplitLines(strip(Head(ws))))
         \o save_words(Tail(ws))

\* the loop of deduplicate_words from word i on, with the set seen and the
\* list unique_words so far
RECURSIVE UniqueWords(_, _, _, _)
UniqueWords(ws, i, seen, unique_words) ==
    IF i > Len(ws) THEN unique_words
    ELSE IF lower(ws[i]) \in seen
         THEN UniqueWords(ws, i + 1, seen, unique_words)
         ELSE UniqueWords(ws, i + 1, seen \cup {lower(ws[i])},
                          Append(unique_words, ws[i]))

deduplicate_words(file) ==
    LET ws == load_words(file)
        unique_words == UniqueWords(ws, 1, {}, <<>>)
    IN  [file |-> save_words(unique_words), ret |-> Len(ws) - Len(unique_words)]

\* the loop of add_words from new word i on
RECURSIVE AddLoop(_, _, _, _, _)
AddLoop(new_words, i, existing_words, existing_set, added_count) ==
    IF i > Len(new_words)
    THEN [existing_words |-> existing_words, added_count |-> added_count]
    ELSE LET word == strip(new_words[i])
         IN  IF word # <<>> /\ lower(word) \notin existing_set
             THEN AddLoop(new_words, i + 1, Append(existing_words, word),
                          existing_set \cup {lower(word)}, added_count + 1)
             ELSE AddLoop(new_words, i + 1, existing_words, existing_set,
                          added_count)

add_words(file, new_words) ==
    LET existing_words == load_words(file)
        existing_set == {lower(existing_words[i]) : i \in 1..Len(existing_words)}
        done == AddLoop(new_words, 1, existing_words, existing_set, 0)
    IN  [file |-> save_words(done.existing_words), ret |-> done.added_count]

\* app.save_user_profile, its word bank part: the lines of the text box,
\* stripped, the empty ones dropped, saved as they are
ProfileWords(words_text) == StrippedNonEmpty(SplitLines(words_text))

\* texts of at most n characters over an alphabet
RECURSIVE TextsUpTo(_, _)
TextsUpTo(alphabet, n) ==
    IF n = 0 THEN {<<>>}
    ELSE LET shorter == TextsUpTo(alphabet, n - 1)
         IN  shorter \cup {Append(t, c) : t \in shorter, c \in alphabet}

MaxTextLen == 3
MaxBankLen == 2
\* what a user types into the word box
WordsTexts ==
    TextsUpTo({"a", "A", NL}, MaxTextLen)
    \cup {<<SP>>, <<SP, "a", SP>>, <<"b", SP, NL, SP, "B">>, <<"a", SP, "b">>}
\* words handed to add_words, and the batches made of them
NewWords ==
    {<<"a">>, <<"A">>, <<"b">>, <<SP, "B">>, <<SP>>, <<>>, <<"a", NL, "A">>}
NewWordBatches ==
    {<<>>} \cup {<<w>> : w \in NewWords} \cup {<<v, w>> : v, w \in NewWords}

BankIdle ==
    /\ word_file = <<>>
    /\ bank_op = "none"
    /\ bank_arg = <<>>
    /\ bank_before = <<>>
    /\ bank_ret = 0

(***************************************************************************)
(* evaluator.save_test_log and log_manager.get_user_logs: the log          *)
(* directory of one user, <date>/test_<time>.json                          *)
(***************************************************************************)
\* the model's day has DayLen seconds; days are numbered from 1
DayLen == 11
MaxDay == 2
MaxSaves == 3

\* datetime.now() one second later
Tick(t) ==
    IF t.sec + 1 < DayLen THEN [day |-> t.day, sec |-> t.sec + 1]
    ELSE [day |-> t.day + 1, sec |-> 0]

\* strftime: a fixed-width, zero-padded field
Pad2(n) == <<DigitChars[(n \div 10) + 1], DigitChars[(n % 10) + 1]>>
\* strftime("%Y-%m-%d"), strftime("%H-%M-%S"), strftime("%Y-%m-%d %H:%M:%S")
FormatDate(t) == Pad2(t.day)
FormatTime(t) == Pad2(t.sec)
FormatDateTime(t) == Pad2(t.day) \o <<SP>> \o Pad2(t.sec)

\* the clock as save_test_log reads it three times: each read is at or
\* after the one before
ClockReads(t) ==
    {r \in {t} \X {t, Tick(t)} \X {t, Tick(t), Tick(Tick(t))} :
        r[3] \in {r[2], Tick(r[2])}}

\* the file save_test_log opens with 'w', and what it dumps into it
save_test_log(files, reads, evaluation) ==
    LET today == FormatDate(reads[1])
        timestamp == FormatTime(reads[2])
        log_data == [timestamp |-> FormatDateTime(reads[3]),
                     score |-> evaluation]
    IN  (<<today, timestamp>> :> log_data) @@ files

\* the order of str and of Path on names made of digits
RECURSIVE NameLess(_, _)
NameLess(a, b) ==
    IF a = <<>> THEN b # <<>>
    ELSE IF b = <<>> THEN FALSE
    ELSE IF Head(a) = Head(b) THEN NameLess(Tail(a), Tail(b))
    ELSE DigitVal(Head(a)) < DigitVal(Head(b))

\* sorted(names), least first
RECURSIVE SortedAscending(_)
SortedAscending(names) ==
    IF names = {} THEN <<>>
    ELSE LET least == CHOOSE x \in names : \A y \in names \ {x} : NameLess(x, y)
         IN  <<least>> \o SortedAscending(names \ {least})

\* sorted(names, reverse=True)
RECURSIVE SortedReverse(_)
SortedReverse(names) ==
    IF names = {} THEN <<>>
    ELSE LET greatest == CHOOSE x \in names : \A y \in names \ {x} : NameLess(y, x)
         IN  <<greatest>> \o SortedReverse(names \ {greatest})

\* the logs of the date directories dirs, in that order; the files of each
\* newest name first, each record with its file_path
RECURSIVE LogsOf(_, _)
LogsOf(files, dirs) ==
    IF dirs = <<>> THEN <<>>
    ELSE LET date_dir == Head(dirs)
             log_names == SortedReverse({k[2] : k \in {x \in DOMAIN files : x[1] = date_dir}})
         IN  [i \in 1..Len(log_names) |->
                 [timestamp |-> files[<<date_dir, log_names[i]>>].timestamp,
                  score |-> files[<<date_dir, log_names[i]>>].score,
                  file_path |-> <<date_dir, log_names[i]>>]]
             \o LogsOf(files, Tail(dirs))

get_user_logs(files) == LogsOf(files, SortedReverse({k[1] : k \in DOMAIN files}))

\* the times of day at which the model's runs start
StartSeconds == {0, 9, DayLen - 1}
\* how long after the last operation a test is finished
Waits(t) == {t, Tick(t), Tick(Tick(t))}

LogsIdle ==
    /\ now = [day |-> 1, sec |-> 0]
    /\ log_files = <<>>
    /\ saves = 0
    /\ listed = <<>>
    /\ lpc = "idle"

(***************************************************************************)
(* ai_client.py: the clients and the credentials their calls carry         *)
(***************************************************************************)
MaxClients == 3
SUPPORTED_PROVIDERS == {"anthropic", "openai", "dashscope"}
ApiKeys == {"key_1", "key_2"}
NoKey == "unset"

\* get_client: the object built; ValueError for any other provider
get_client(provider, api_key) ==
    IF provider \in SUPPORTED_PROVIDERS
    THEN [raised |-> FALSE, client |-> [provider |-> provider, api_key |-> api_key]]
    ELSE [raised |-> TRUE, client |-> [provider |-> provider, api_key |-> NoKey]]

\* DashScopeClient.__init__: dashscope.api_key = api_key; the other two
\* constructors keep the key in an SDK object of their own
GlobalKeyAfter(global_key, provider, api_key) ==
    IF provider = "dashscope" THEN api_key ELSE global_key

\* the key a generate call carries: self.client's for Anthropic and OpenAI;
\* Generation.call is given none and takes dashscope.api_key
CredentialsUsed(client, global_key) ==
    IF client.provider = "dashscope" THEN global_key ELSE client.api_key

NotUsed == [client |-> 0, api_key |-> NoKey]

ClientsIdle ==
    /\ api_key_global = NoKey
    /\ clients = <<>>
    /\ used = NotUsed

(***************************************************************************)
(* The prompt builders on their own                                        *)
(***************************************************************************)
MaxAsked == 3
\* question i of a list, told apart from the others by its text
Numbered(q, i) ==
    IF IsDict(q) THEN With(q, KeyQuestion, JStr(<<"q", DigitChars[i + 1]>>)) ELSE q
NumberedAnswers(n) == [i \in 1..n |-> <<"A", DigitChars[i + 1]>>]
\* lists of questions, good ones and ones lacking their type
BuilderQuestionLists ==
    UNION {[1..n -> GoodQuestions \cup {Without(QFill, KeyType)}] : n \in 0..MaxAsked}
\* word lists around the length the prompt shows in full
BuilderWordCounts ==
    {0, 1, WORDS_SHOWN - 1, WORDS_SHOWN, WORDS_SHOWN + 1, WORDS_SHOWN + MaxWords}
Reversed(s) == [i \in 1..Len(s) |-> s[Len(s) + 1 - i]]

BuilderIdle ==
    /\ bkind = "none"
    /\ bwords = <<>>
    /\ bquestions = <<>>
    /\ banswers = <<>>
    /\ bresult = NoPrompt
    /\ bpc = "idle"

(***************************************************************************)
(* app.py: the handlers behind the user dropdown and the generate and      *)
(* submit buttons, and the module's global state                           *)
(***************************************************************************)
MaxGenerations == 3
Users == {"ann", "bob"}
\* the dropdown with nothing chosen
NoUser == ""

\* what generate_article_and_questions / evaluate_answers hand back to the
\* app: None, the data, or an exception
PipelineOutcomes == {"none", "data", "raised"}

\* the outcome of the most recent generate_content, and of the last submit
NotGenerated == [outcome |-> "never", username |-> NoUser, content |-> None]
NotSubmitted ==
    [outcome |-> "never", username |-> NoUser, article |-> None,
     questions |-> None, after |-> NotGenerated]

AppIdle ==
    /\ current_user = NoUser
    /\ current_article = None
    /\ current_questions = None
    /\ current_client = None
    /\ selected = NoUser
    /\ generations = 0
    /\ last_generate = NotGenerated
    /\ last_submit = NotSubmitted
    /\ saved_logs = <<>>

StoreIdle == BankIdle /\ LogsIdle /\ ClientsIdle /\ BuilderIdle /\ AppIdle

(***************************************************************************)
(* Spec: calls of the two pipelines against a backend that may raise or    *)
(* return any of the response texts                                        *)
(***************************************************************************)
Init == PipeIdle /\ ParseIdle /\ ValidateIdle /\ StoreIdle

\* entry of generate_article_and_questions: the prompt is built, once
CallGenerate ==
    /\ pc = "idle"
    /\ \E n \in {0, MIN_WORDS - 1, MIN_WORDS, MaxWords}, m \in (0 - 1)..MaxRetriesBound :
          LET built == get_article_generation_prompt(WordList(n), 10, 500)
          IN  /\ pipeline' = "generate"
              /\ words' = WordList(n)
              /\ max_retries' = m
              /\ prompt' = built
              /\ pc' = IF built.raised THEN "raised" ELSE "loop"
    /\ attempt' = 0
    /\ calls' = 0
    /\ log' = <<>>
    /\ response' = NoResponse
    /\ result' = None
    /\ builds' = 1
    /\ sent' = <<>>
    /\ UNCHANGED <<questions, user_answers, parseVars, validateVars, storeVars>>

\* entry of evaluate_answers: the prompt is built, once, outside the try
CallEvaluate ==
    /\ pc = "idle"
    /\ \E qs \in EvaluatedQuestionLists, n \in {2, NUM_QUESTIONS},
          m \in (0 - 1)..MaxRetriesBound :
          LET built == get_evaluation_prompt(qs, AnswerList(n))
          IN  /\ pipeline' = "evaluate"
              /\ questions' = qs
              /\ user_answers' = AnswerList(n)
              /\ max_retries' = m
              /\ prompt' = built
              /\ pc' = IF built.raised THEN "raised" ELSE "loop"
    /\ attempt' = 0
    /\ calls' = 0
    /\ log' = <<>>
    /\ response' = NoResponse
    /\ result' = None
    /\ builds' = 1
    /\ sent' = <<>>
    /\ UNCHANGED <<words, parseVars, validateVars, storeVars>>

\* except Exception: return None on the last attempt, else the next attempt
Handled(kind) ==
    /\ log' = Append(log, kind)
    /\ result' = None
    /\ IF LastAttempt(attempt, max_retries)
       THEN pc' = "failed" /\ attempt' = attempt
       ELSE pc' = "loop" /\ attempt' = attempt + 1

\* one attempt in which client.generate raises
BackendRaises ==
    /\ pc = "loop"
    /\ InRange(attempt, max_retries)
    /\ sent' = Append(sent, GenerateArgs(prompt))
    /\ calls' = calls + 1
    /\ response' = NoResponse
    /\ Handled("backend_error")
    /\ UNCHANGED <<pipeline, words, questions, user_answers, max_retries, prompt,
                   builds,
                   parseVars, validateVars, storeVars>>

\* one attempt in which client.generate returns a text: parse, validate,
\* return the data or go on
BackendReturns ==
    /\ pc = "loop"
    /\ InRange(attempt, max_retries)
    /\ \E r \in Responses :
          /\ response' = r
          /\ calls' = calls + 1
          /\ IF ~ParsedResponse[r].ok THEN Handled("parse_failure")
             ELSE IF Validate(pipeline, ParsedResponse[r].val)
                  THEN /\ pc' = "succeeded"
                       /\ result' = Some(ParsedResponse[r].val)
                       /\ log' = Append(log, "ok")
                       /\ attempt' = attempt
                  ELSE /\ pc' = "loop"
                       /\ result' = None
                       /\ log' = Append(log, "schema_violation")
                       /\ attempt' = attempt + 1
    /\ sent' = Append(sent, GenerateArgs(prompt))
    /\ UNCHANGED <<pipeline, words, questions, user_answers, max_retries, prompt,
                   builds,
                   parseVars, validateVars, storeVars>>

\* the loop is exhausted (or never entered): return None
LoopExit ==
    /\ pc = "loop"
    /\ ~InRange(attempt, max_retries)
    /\ pc' = "failed"
    /\ result' = None
    /\ UNCHANGED <<pipeline, words, questions, user_answers, max_retries, prompt,
                   attempt, calls, log, response, builds, sent, parseVars, validateVars, storeVars>>

\* the call is over; the next call starts afresh
Return ==
    /\ pc \in {"succeeded", "failed", "raised"}
    /\ pc' = "idle"
    /\ pipeline' = "none"
    /\ words' = <<>>
    /\ questions' = <<>>
    /\ user_answers' = <<>>
    /\ max_retries' = 0
    /\ prompt' = NoPrompt
    /\ attempt' = 0
    /\ calls' = 0
    /\ log' = <<>>
    /\ response' = NoResponse
    /\ result' = None
    /\ builds' = 0
    /\ sent' = <<>>
    /\ UNCHANGED <<parseVars, validateVars, storeVars>>

Next ==
    \/ CallGenerate
    \/ CallEvaluate
    \/ BackendRaises
    \/ BackendReturns
    \/ LoopExit
    \/ Return

Spec == Init /\ [][Next]_vars

(***************************************************************************)
(* SpecParse: parse_json_response applied to object texts, bare and        *)
(* wrapped, and to raw texts                                               *)
(***************************************************************************)
InitParse ==
    /\ PipeIdle
    /\ ValidateIdle
    /\ StoreIdle
    /\ ppc = "ready"
    /\ presult = [ok |-> FALSE, val |-> JNull]
    /\ \/ \E v \in ObjectValues, w \in Wraps :
             /\ pbare = Encode(v)
             /\ pwrap = w
             /\ ptext = Wrap(w, Encode(v))
       \/ \E t \in RawTexts :
             /\ pbare = <<>>
             /\ pwrap = "raw"
             /\ ptext = t

ParseResponse ==
    /\ ppc = "ready"
    /\ presult' = parse_json_response(ptext)
    /\ ppc' = "done"
    /\ UNCHANGED <<ptext, pbare, pwrap, pipeVars, validateVars, storeVars>>

NextParse == ParseResponse

SpecParse == InitParse /\ [][NextParse]_vars

(***************************************************************************)
(* SpecValidate: the two validators applied to parsed data                 *)
(***************************************************************************)
InitValidate ==
    /\ PipeIdle
    /\ ParseIdle
    /\ StoreIdle
    /\ vpc = "ready"
    /\ vresult = FALSE
    /\ \/ vkind = "article" /\ vdata \in ArticleInputs
       \/ vkind = "evaluation" /\ vdata \in EvaluationInputs

ValidateArticle ==
    /\ vpc = "ready"
    /\ vkind = "article"
    /\ vresult' = validate_article_response(vdata)
    /\ vpc' = "done"
    /\ UNCHANGED <<vdata, vkind, pipeVars, parseVars, storeVars>>

ValidateEvaluation ==
    /\ vpc = "ready"
    /\ vkind = "evaluation"
    /\ vresult' = validate_evaluation_response(vdata)
    /\ vpc' = "done"
    /\ UNCHANGED <<vdata, vkind, pipeVars, parseVars, storeVars>>

NextValidate ==
    \/ ValidateArticle
    \/ ValidateEvaluation

SpecValidate == InitValidate /\ [][NextValidate]_vars

(***************************************************************************)
(* SpecBank: the word-bank operations on one user's word_bank.txt, which   *)
(* create_user leaves empty                                                *)
(***************************************************************************)
InitBank == PipeIdle /\ ParseIdle /\ ValidateIdle /\ StoreIdle

\* app.save_user_profile: int(age) may raise before the words are saved
SaveUserProfile ==
    /\ \/ \E words_text \in WordsTexts :
             /\ bank_arg' = <<words_text>>
             /\ word_file' = save_words(ProfileWords(words_text))
             /\ bank_ret' = 1
       \/ /\ bank_arg' = <<>>
          /\ word_file' = word_file
          /\ bank_ret' = 0
    /\ bank_op' = "save_user_profile"
    /\ bank_before' = <<>>
    /\ UNCHANGED <<appVars, pipeVars, parseVars, validateVars, logVars, clientVars, builderVars>>

AddWords ==
    /\ Len(word_file) < MaxBankLen
    /\ \E new_words \in NewWordBatches :
          /\ bank_arg' = new_words
          /\ word_file' = add_words(word_file, new_words).file
          /\ bank_ret' = add_words(word_file, new_words).ret
    /\ bank_op' = "add_words"
    /\ bank_before' = load_words(word_file)
    /\ UNCHANGED <<appVars, pipeVars, parseVars, validateVars, logVars, clientVars, builderVars>>

\* app.handle_deduplicate
DeduplicateWords ==
    /\ word_file' = deduplicate_words(word_file).file
    /\ bank_ret' = deduplicate_words(word_file).ret
    /\ bank_op' = "deduplicate_words"
    /\ bank_arg' = <<>>
    /\ bank_before' = load_words(word_file)
    /\ UNCHANGED <<appVars, pipeVars, parseVars, validateVars, logVars, clientVars, builderVars>>

NextBank ==
    \/ SaveUserProfile
    \/ AddWords
    \/ DeduplicateWords

SpecBank == InitBank /\ [][NextBank]_vars

(***************************************************************************)
(* SpecLogs: tests saved and listed for one user while the clock runs      *)
(***************************************************************************)
InitLogs ==
    /\ PipeIdle /\ ParseIdle /\ ValidateIdle
    /\ BankIdle /\ ClientsIdle /\ BuilderIdle /\ AppIdle
    /\ now \in [day : 1..MaxDay, sec : StartSeconds]
    /\ log_files = <<>>
    /\ saves = 0
    /\ listed = <<>>
    /\ lpc = "idle"

\* app.submit_answers after an evaluation: save_test_log, whose three clock
\* reads may fall into different seconds
SaveTestLog ==
    /\ saves < MaxSaves
    /\ \E start \in Waits(now) : \E reads \in ClockReads(start) :
          /\ log_files' = save_test_log(log_files, reads, saves + 1)
          /\ now' = reads[3]
    /\ saves' = saves + 1
    /\ listed' = <<>>
    /\ lpc' = "idle"
    /\ UNCHANGED <<appVars, pipeVars, parseVars, validateVars, bankVars, clientVars, builderVars>>

\* app: the history tab
GetUserLogs ==
    /\ listed' = get_user_logs(log_files)
    /\ lpc' = "listed"
    /\ UNCHANGED <<now, log_files, saves>>
    /\ UNCHANGED <<appVars, pipeVars, parseVars, validateVars, bankVars, clientVars, builderVars>>

NextLogs ==
    \/ SaveTestLog
    \/ GetUserLogs

SpecLogs == InitLogs /\ [][NextLogs]_vars

(***************************************************************************)
(* SpecClients: clients constructed and used in any order                  *)
(***************************************************************************)
InitClients == PipeIdle /\ ParseIdle /\ ValidateIdle /\ StoreIdle

GetClient ==
    /\ Len(clients) < MaxClients
    /\ \E provider \in SUPPORTED_PROVIDERS \cup {"other"}, api_key \in ApiKeys :
          LET made == get_client(provider, api_key)
          IN  IF made.raised
              THEN UNCHANGED <<clients, api_key_global>>
              ELSE /\ clients' = Append(clients, made.client)
                   /\ api_key_global' = GlobalKeyAfter(api_key_global, provider, api_key)
    /\ used' = NotUsed
    /\ UNCHANGED <<appVars, pipeVars, parseVars, validateVars, bankVars, logVars, builderVars>>

\* one client.generate call of a pipeline attempt
Generate ==
    /\ \E i \in 1..Len(clients) :
          used' = [client |-> i,
                   api_key |-> CredentialsUsed(clients[i], api_key_global)]
    /\ UNCHANGED <<clients, api_key_global>>
    /\ UNCHANGED <<appVars, pipeVars, parseVars, validateVars, bankVars, logVars, builderVars>>

NextClients ==
    \/ GetClient
    \/ Generate

SpecClients == InitClients /\ [][NextClients]_vars

(***************************************************************************)
(* SpecBuilder: each prompt builder applied to its arguments               *)
(***************************************************************************)
InitBuilder ==
    /\ PipeIdle /\ ParseIdle /\ ValidateIdle
    /\ BankIdle /\ LogsIdle /\ ClientsIdle /\ AppIdle
    /\ bpc = "ready"
    /\ bresult = NoPrompt
    /\ \/ /\ bkind = "article"
          /\ \E n \in BuilderWordCounts : bwords \in {WordList(n), Reversed(WordList(n))}
          /\ bquestions = <<>>
          /\ banswers = <<>>
       \/ /\ bkind = "evaluation"
          /\ bwords = <<>>
          /\ \E qs \in BuilderQuestionLists :
                bquestions = [i \in 1..Len(qs) |-> Numbered(qs[i], i)]
          /\ \E n \in 0..MaxAsked : banswers = NumberedAnswers(n)

BuildArticlePrompt ==
    /\ bpc = "ready"
    /\ bkind = "article"
    /\ bresult' = get_article_generation_prompt(bwords, 10, 500)
    /\ bpc' = "done"
    /\ UNCHANGED <<bkind, bwords, bquestions, banswers>>
    /\ UNCHANGED <<appVars, pipeVars, parseVars, validateVars, bankVars, logVars, clientVars>>

BuildEvaluationPrompt ==
    /\ bpc = "ready"
    /\ bkind = "evaluation"
    /\ bresult' = get_evaluation_prompt(bquestions, banswers)
    /\ bpc' = "done"
    /\ UNCHANGED <<bkind, bwords, bquestions, banswers>>
    /\ UNCHANGED <<appVars, pipeVars, parseVars, validateVars, bankVars, logVars, clientVars>>

NextBuilder ==
    \/ BuildArticlePrompt
    \/ BuildEvaluationPrompt

SpecBuilder == InitBuilder /\ [][NextBuilder]_vars

(***************************************************************************)
(* SpecLive: Spec with every backend call returning or raising, and every  *)
(* step of the loop taken                                                  *)
(***************************************************************************)
SpecLive ==
    /\ Init
    /\ [][Next]_vars
    /\ WF_vars(BackendRaises \/ BackendReturns)
    /\ WF_vars(LoopExit)
    /\ WF_vars(Return)

(***************************************************************************)
(* SpecApp: the user dropdown, the generate button and the submit button   *)
(* pressed in any order                                                    *)
(***************************************************************************)
InitApp == PipeIdle /\ ParseIdle /\ ValidateIdle /\ StoreIdle

\* user_dropdown.change: handle_user_selection
HandleUserSelection ==
    /\ \E username \in Users \cup {NoUser} :
          /\ selected' = username
          /\ current_user' = IF username = NoUser THEN current_user ELSE username
    /\ UNCHANGED <<current_article, current_questions, current_client, generations,
                   last_generate, last_submit, saved_logs>>
    /\ UNCHANGED <<pipeVars, parseVars, validateVars, bankVars, logVars, clientVars,
                   builderVars>>

\* generate_btn.click: generate_content with the dropdown's user. ready says
\* whether a provider and model are chosen, the profile is saved, the bank
\* has 5 words and the API key is there.
GenerateContent ==
    /\ generations < MaxGenerations
    /\ \E ready \in BOOLEAN, provider \in {"openai", "other"},
          outcome \in PipelineOutcomes :
          LET made == get_client(provider, "key_1")
              reached_client == selected # NoUser /\ ready
              generated == reached_client /\ ~made.raised /\ outcome = "data"
              data == Some(JNum(generations + 1))
          IN  /\ current_client' = IF reached_client /\ ~made.raised
                                   THEN Some(made.client) ELSE current_client
              /\ current_article' = IF generated THEN data ELSE current_article
              /\ current_questions' = IF generated THEN data ELSE current_questions
              /\ generations' = IF generated THEN generations + 1 ELSE generations
              /\ last_generate' =
                    [outcome |-> IF generated THEN "generated" ELSE "failed",
                     username |-> selected,
                     content |-> IF generated THEN data ELSE None]
    /\ UNCHANGED <<current_user, selected, last_submit, saved_logs>>
    /\ UNCHANGED <<pipeVars, parseVars, validateVars, bankVars, logVars, clientVars,
                   builderVars>>

\* submit_btn.click: submit_answers with the dropdown's user
SubmitAnswers ==
    /\ Len(saved_logs) < MaxSaves
    /\ \E outcome \in PipelineOutcomes :
          LET refused == current_questions = None \/ current_client = None
              evaluated == ~refused /\ outcome = "data"
              \* save_test_log under USERS_DIR / username; no user, no path
              logged == evaluated /\ selected # NoUser
          IN  /\ last_submit' =
                    [outcome |-> IF refused THEN "refused"
                                 ELSE IF logged THEN "logged"
                                 ELSE IF evaluated THEN "evaluated"
                                 ELSE "failed",
                     username |-> selected,
                     article |-> IF refused THEN None ELSE current_article,
                     questions |-> IF refused THEN None ELSE current_questions,
                     after |-> last_generate]
              /\ saved_logs' =
                    IF logged
                    THEN Append(saved_logs, [username |-> selected,
                                             article |-> current_article,
                                             questions |-> current_questions])
                    ELSE saved_logs
    /\ UNCHANGED <<current_user, current_article, current_questions, current_client,
                   selected, generations, last_generate>>
    /\ UNCHANGED <<pipeVars, parseVars, validateVars, bankVars, logVars, clientVars,
                   builderVars>>

NextApp ==
    \/ HandleUserSelection
    \/ GenerateContent
    \/ SubmitAnswers

SpecApp == InitApp /\ [][NextApp]_vars

(***************************************************************************)
(* Claims                                                                  *)
(***************************************************************************)
FailureKinds == {"backend_error", "parse_failure", "schema_violation"}

\* C1: whatever the backend does, one call of either pipeline invokes
\* client.generate at most max_retries times (never, when max_retries is not
\* positive); every invocation is one logged attempt; and once all
\* max_retries attempts have failed the call returns None: it is at the
\* exhausted loop or has returned, and has not raised.
C1_AtMostMaxRetriesThenNone ==
    /\ calls <= (IF max_retries > 0 THEN max_retries ELSE 0)
    /\ calls = Len(log)
    /\ (pc = "failed" => result = None)
    /\ (/\ pipeline # "none"
        /\ max_retries > 0
        /\ Len(log) = max_retries
        /\ \A i \in 1..Len(log) : log[i] \in FailureKinds)
       => /\ result = None
          /\ \/ pc = "failed"
             \/ pc = "loop" /\ attempt >= max_retries

\* C1 witness: a call that used all of three or more attempts, failing in
\* each of the three ways, and returned None
C1_Witness ==
    /\ pc = "failed"
    /\ max_retries >= 3
    /\ calls = max_retries
    /\ {log[i] : i \in 1..Len(log)} = FailureKinds
    /\ result = None

\* C2: a call that has succeeded made exactly k <= max_retries backend calls,
\* the first k-1 of them failed attempts and the k-th the success; it returns
\* exactly the payload the k-th response carried; and no backend call follows
\* the success.
C2_SuccessOnAttemptK ==
    /\ [](pc = "succeeded" =>
            /\ calls = attempt + 1
            /\ calls <= max_retries
            /\ Len(log) = calls
            /\ log[calls] = "ok"
            /\ \A i \in 1..(calls - 1) : log[i] \in FailureKinds
            /\ result = [some |-> TRUE, val |-> PayloadValue(response.payload)])
    /\ [][pc = "succeeded" => (pc' = "idle" /\ calls' = 0)]_vars

\* C2 witness: malformed text on attempts 1 and 2, a valid article on attempt
\* 3 of 3
C2_Witness ==
    /\ pc = "succeeded"
    /\ pipeline = "generate"
    /\ max_retries = 3
    /\ calls = 3
    /\ log = <<"parse_failure", "parse_failure", "ok">>
    /\ result = [some |-> TRUE, val |-> PayloadValue("article")]

\* C3: no call of generate_article_and_questions or evaluate_answers ends by
\* raising, the prompt building before the loop included.
C3_NeverRaises == pc # "raised"

\* C4: given fewer than 5 words, the generation pipeline does not invoke the
\* backend at all.
C4_FewWordsNoBackendCall ==
    (pipeline = "generate" /\ Len(words) < 5) => calls = 0

\* the questions of a returned article
ResultQuestions == result.val.f[KeyQuestions].items
TypeCount(qs, t) == Cardinality({i \in 1..Len(qs) : qs[i].f[KeyType] = JStr(t)})

\* C5 as stated: every returned article has exactly 5 questions, 2
\* multiple_choice, 2 fill_blank and 1 true_false.
C5_FixedComposition ==
    (pc = "succeeded" /\ pipeline = "generate") =>
        /\ Len(ResultQuestions) = 5
        /\ TypeCount(ResultQuestions, MultipleChoice) = 2
        /\ TypeCount(ResultQuestions, FillBlank) = 2
        /\ TypeCount(ResultQuestions, TrueFalse) = 1

\* C5 amended: every returned article has exactly 5 questions, each of type
\* multiple_choice, fill_blank or true_false; how many there are of each type
\* is not checked.
C5_FiveTypedQuestions ==
    (pc = "succeeded" /\ pipeline = "generate") =>
        /\ Len(ResultQuestions) = 5
        /\ \A i \in 1..Len(ResultQuestions) :
              ResultQuestions[i].f[KeyType]
                  \in {JStr(MultipleChoice), JStr(FillBlank), JStr(TrueFalse)}

\* C5 witness: a returned article whose five questions are all fill_blank
C5_Witness ==
    /\ pc = "succeeded"
    /\ pipeline = "generate"
    /\ Len(ResultQuestions) = 5
    /\ TypeCount(ResultQuestions, FillBlank) = 5

\* C6: for a valid JSON object text X, parse_json_response returns the payload
\* of X whether X is bare, fenced (with or without the json tag) or inside
\* prose, string values with braces or backquotes included.
C6_SamePayloadHoweverWrapped ==
    (ppc = "done" /\ pwrap \in Wraps) =>
        /\ presult.ok
        /\ presult = JsonLoads(pbare)

\* C7: parse_json_response raises only when all three strategies have failed:
\* the whole text, the fenced block, and the span from the first "{" to the
\* last "}".
C7_RaisesOnlyWhenAllThreeFail ==
    (ppc = "done" /\ ~presult.ok) =>
        /\ ~JsonLoads(ptext).ok
        /\ ~(FenceSearch(ptext).found /\ JsonLoads(FenceSearch(ptext).group).ok)
        /\ ~(BraceSearch(ptext).found /\ JsonLoads(BraceSearch(ptext).group).ok)

\* the article schema as the claim words it
QuestionSchema(q) ==
    /\ q.k = "obj"
    /\ {KeyType, KeyQuestion, KeyCorrectAnswer} \subseteq DOMAIN q.f
    /\ q.f[KeyType] \in {JStr(MultipleChoice), JStr(FillBlank), JStr(TrueFalse)}
    /\ q.f[KeyType] = JStr(MultipleChoice) =>
          /\ KeyOptions \in DOMAIN q.f
          /\ q.f[KeyOptions].k = "list"
          /\ Len(q.f[KeyOptions].items) = 4
ArticleSchema(d) ==
    /\ d.k = "obj"
    /\ KeyArticle \in DOMAIN d.f
    /\ d.f[KeyArticle].k = "str"
    /\ Len(d.f[KeyArticle].s) >= 50
    /\ KeyQuestions \in DOMAIN d.f
    /\ d.f[KeyQuestions].k = "list"
    /\ Len(d.f[KeyQuestions].items) = 5
    /\ \A i \in 1..5 : QuestionSchema(d.f[KeyQuestions].items[i])

\* C8: validate_article_response returns true exactly for the values that
\* meet the article schema, and false for every other value.
C8_ArticleValidatorIsTheSchema ==
    (vpc = "done" /\ vkind = "article") =>
        /\ vresult \in BOOLEAN
        /\ vresult <=> ArticleSchema(vdata)

\* C8 witness: an accepted value with a multiple_choice question, and the
\* validator has run
C8_Witness ==
    /\ vpc = "done"
    /\ vkind = "article"
    /\ vresult
    /\ \E i \in 1..5 : vdata.f[KeyQuestions].items[i].f[KeyType] = JStr(MultipleChoice)

\* the evaluation schema as the claim words it: score is a number
EvaluationSchema(d) ==
    /\ d.k = "obj"
    /\ {KeyScore, KeyItemAnalysis, KeyOverallFeedback, KeySuggestions} \subseteq DOMAIN d.f
    /\ d.f[KeyScore].k = "num"
    /\ d.f[KeyScore].n >= 0
    /\ d.f[KeyScore].n <= 100
    /\ d.f[KeyItemAnalysis].k = "list"

\* C9: validate_evaluation_response accepts a value exactly when it meets the
\* evaluation schema; a score that is no number (a boolean, a string) is
\* rejected.
C9_EvaluationValidatorIsTheSchema ==
    (vpc = "done" /\ vkind = "evaluation") =>
        (vresult <=> EvaluationSchema(vdata))

\* the item_analysis of a returned evaluation
ResultItemAnalysis == result.val.f[KeyItemAnalysis]

\* C10 as stated: every returned evaluation has one item_analysis entry per
\* question passed in.
C10_OneEntryPerQuestion ==
    (pc = "succeeded" /\ pipeline = "evaluate") =>
        /\ ResultItemAnalysis.k = "list"
        /\ Len(ResultItemAnalysis.items) = Len(questions)

\* C10 amended: every returned evaluation has an item_analysis that is a
\* sequence; its length is not checked against the questions.
C10_ItemAnalysisIsASequence ==
    (pc = "succeeded" /\ pipeline = "evaluate") => ResultItemAnalysis.k = "list"

\* C10 witness: a returned evaluation with one entry for five questions
C10_Witness ==
    /\ pc = "succeeded"
    /\ pipeline = "evaluate"
    /\ Len(questions) = 5
    /\ ResultItemAnalysis.k = "list"
    /\ Len(ResultItemAnalysis.items) = 1

\* two words that differ at most in the case of their letters
CasePairs == {{"a", "A"}, {"b", "B"}}
SameIgnoringCase(v, w) ==
    /\ Len(v) = Len(w)
    /\ \A i \in 1..Len(v) : v[i] = w[i] \/ {v[i], w[i]} \in CasePairs

\* the positions of ws that hold the first word of their class
FirstOccurrences(ws) ==
    {i \in 1..Len(ws) : \A j \in 1..(i - 1) : ~SameIgnoringCase(ws[j], ws[i])}

\* the words of ws at the positions at, in the order of ws
RECURSIVE PickInOrder(_, _)
PickInOrder(ws, at) ==
    IF at = {} THEN <<>>
    ELSE <<ws[SetMin(at)]>> \o PickInOrder(ws, at \ {SetMin(at)})

\* C11: deduplicate_words leaves in the bank, in their original order and
\* casing, exactly the first word of every class of words equal ignoring
\* case; it returns the number of words before minus the number after; and
\* a second call removes 0 words and leaves the file as it is.
C11_DeduplicateKeepsFirstOfEachClass ==
    bank_op = "deduplicate_words" =>
        /\ load_words(word_file) = PickInOrder(bank_before, FirstOccurrences(bank_before))
        /\ bank_ret = Len(bank_before) - Len(load_words(word_file))
        /\ deduplicate_words(word_file) = [file |-> word_file, ret |-> 0]

\* a bank such as a, b, A was deduplicated: a word went, two stayed
C11_Witness ==
    /\ bank_op = "deduplicate_words"
    /\ bank_ret >= 1
    /\ Len(load_words(word_file)) >= 2
    /\ \E i, j \in 1..Len(bank_before) :
          /\ i + 1 < j
          /\ bank_before[i] # bank_before[j]
          /\ SameIgnoringCase(bank_before[i], bank_before[j])

\* C12: after any sequence of save_user_profile, add_words and
\* deduplicate_words the word bank holds no two entries equal ignoring case,
\* and add_words keeps the entries it found, in order, and appends as many
\* words as it returns.
C12_NoTwoEntriesEqualIgnoringCase ==
    LET ws == load_words(word_file)
    IN  /\ \A i, j \in 1..Len(ws) : i < j => ~SameIgnoringCase(ws[i], ws[j])
        /\ bank_op = "add_words" =>
               /\ Len(ws) = Len(bank_before) + bank_ret
               /\ SubSeq(ws, 1, Len(bank_before)) = bank_before

\* C13: every save_test_log adds one record and leaves the earlier ones
\* alone: after n saves the log directory holds n records, one for each
\* evaluation, and get_user_logs returns n of them, also when two saves fall
\* into the same clock second.
C13_EverySaveAddsOneRecord ==
    /\ Cardinality(DOMAIN log_files) = saves
    /\ \A evaluation \in 1..saves : \E k \in DOMAIN log_files : log_files[k].score = evaluation
    /\ lpc = "listed" => Len(listed) = saves

\* the number a name made of digits stands for
NameValue(name) == DigitsValue(name, 1, Len(name))
\* the storage key p is later than q: a later date, or the same date and a
\* later time of day
StoredLater(p, q) ==
    \/ NameValue(p[1]) > NameValue(q[1])
    \/ NameValue(p[1]) = NameValue(q[1]) /\ NameValue(p[2]) > NameValue(q[2])

\* C14: get_user_logs returns every stored log once, with the record stored
\* under its key, and a log with a later storage date, or the same date and
\* a later time of day, stands before every older one.
C14_NewestFirst ==
    lpc = "listed" =>
        /\ Len(listed) = Cardinality(DOMAIN log_files)
        /\ {listed[i].file_path : i \in 1..Len(listed)} = DOMAIN log_files
        /\ \A i \in 1..Len(listed) :
              /\ listed[i].timestamp = log_files[listed[i].file_path].timestamp
              /\ listed[i].score = log_files[listed[i].file_path].score
        /\ \A i, j \in 1..Len(listed) :
              i < j => StoredLater(listed[i].file_path, listed[j].file_path)

\* three logs were listed, two of one date and one of another
C14_Witness ==
    /\ lpc = "listed"
    /\ Len(listed) = 3
    /\ \E i, j \in 1..3 : listed[i].file_path[1] # listed[j].file_path[1]
    /\ \E i, j \in 1..3 :
          /\ i # j
          /\ listed[i].file_path[1] = listed[j].file_path[1]
          /\ NameValue(listed[i].file_path[2]) >= 10
          /\ NameValue(listed[j].file_path[2]) < 10

\* C15: whatever clients were constructed before or after, and in whatever
\* order they are used, a client's generate call carries the credentials
\* that client was constructed with.
C15_EachClientUsesItsOwnCredentials ==
    used.client # 0 => used.api_key = clients[used.client].api_key

\* C16: a pipeline call runs its prompt builder exactly once, before the
\* first attempt; the prompt stays what it is while the call lasts; and
\* every client.generate invocation of the call is given that user prompt
\* and that system prompt, however the earlier attempts failed.
C16_PromptBuiltOnceAndSentUnchanged ==
    /\ [](/\ pipeline # "none" => builds = 1
          /\ Len(sent) = calls
          /\ \A i \in 1..Len(sent) :
                sent[i] = [prompt |-> prompt.user, system_prompt |-> prompt.system])
    /\ [][pc # "idle" /\ pc' # "idle" => prompt' = prompt /\ builds' = builds]_vars

\* an evaluation's third invocation, after a backend error and a parse failure
C16_Witness ==
    /\ pipeline = "evaluate"
    /\ Len(prompt.user) = NUM_QUESTIONS
    /\ Len(sent) = 3
    /\ log[1] = "backend_error"
    /\ log[2] = "parse_failure"

\* C17: when get_evaluation_prompt returns, it has emitted as many blocks as
\* the shorter of questions and user_answers has entries; block i carries
\* the number i, the type, text and correct answer of the i-th question and
\* the i-th answer; whatever one list has beyond the other is left out.
C17_OneBlockPerPairInOrder ==
    (bkind = "evaluation" /\ bpc = "done" /\ ~bresult.raised) =>
        LET blocks == bresult.user
            pairs == IF Len(bquestions) <= Len(banswers)
                     THEN Len(bquestions) ELSE Len(banswers)
        IN  /\ Len(blocks) = pairs
            /\ \A i \in 1..pairs :
                  /\ blocks[i].num = i
                  /\ blocks[i].type = bquestions[i].f[KeyType]
                  /\ blocks[i].question = bquestions[i].f[KeyQuestion]
                  /\ blocks[i].correct_answer = bquestions[i].f[KeyCorrectAnswer]
                  /\ blocks[i].answer = banswers[i]

\* three questions, the last one without a type, and two answers: two blocks
C17_Witness ==
    /\ bkind = "evaluation"
    /\ bpc = "done"
    /\ ~bresult.raised
    /\ Len(bquestions) = 3
    /\ ~HasKey(bquestions[3], KeyType)
    /\ Len(banswers) = 2
    /\ Len(bresult.user) = 2

\* C18: for n words get_article_generation_prompt shows the first n words
\* when n is at most 50 and the first 50 otherwise, as they are and in their
\* order, and adds the count n - 50 of the remaining words exactly when n
\* is greater than 50.
C18_FirstFiftyWordsAndCountOfTheRest ==
    (bkind = "article" /\ bpc = "done") =>
        LET n == Len(bwords)
            shown == bresult.user.shown
        IN  /\ ~bresult.raised
            /\ Len(shown) = (IF n <= 50 THEN n ELSE 50)
            /\ \A i \in 1..Len(shown) : shown[i] = bwords[i]
            /\ bresult.user.suffix = (IF n > 50 THEN <<n - 50>> ELSE <<>>)

\* 51 words: 50 shown and "1 more"
C18_Witness ==
    /\ bkind = "article"
    /\ bpc = "done"
    /\ Len(bwords) = 51
    /\ Len(bresult.user.shown) = 50
    /\ bresult.user.suffix = <<1>>

\* C19: every call of a pipeline ends in succeeded or in failed, and does so
\* after finitely many steps when every backend call returns or raises;
\* with max_retries at most 0 it ends in failed, with None and without a
\* backend invocation.
C19_TerminatesSucceededOrFailed ==
    /\ [][pc # "idle" /\ pc' = "idle" => pc \in {"succeeded", "failed"}]_vars
    /\ [](pipeline # "none" /\ max_retries <= 0 /\ pc # "loop" =>
             pc = "failed" /\ calls = 0 /\ result = None)
    /\ (pc = "loop") ~> (pc \in {"succeeded", "failed"})

\* C20: the timestamp written into a saved log names the date and the time
\* of day of the directory and file the log is stored under.
C20_TimestampMatchesStorageKey ==
    \A k \in DOMAIN log_files : log_files[k].timestamp = k[1] \o <<SP>> \o k[2]

\* C21: whenever submit_answers evaluates (and logs) an article and its
\* questions, the most recent generate_content call succeeded, they are the
\* article and questions that call produced, and the user the log is stored
\* under is the user that call generated them for; so after a failed
\* generation or a switch to another user nothing generated earlier is
\* evaluated or logged.
C21_SubmitUsesLatestContentForItsUser ==
    last_submit.outcome \in {"evaluated", "logged"} =>
        /\ last_submit.after.outcome = "generated"
        /\ last_submit.article = last_submit.after.content
        /\ last_submit.questions = last_submit.after.content
        /\ last_submit.username = last_submit.after.username
====
